---- MODULE Spec2Model ----
(***************************************************************************)
(* Linear arrangement of historical data with transactional support        *)
(* (core/utils/historical-data/src/synch/linear/transaction.rs).           *)
(*                                                                         *)
(* Global state: States(usize), the counter of overlayed transaction       *)
(* layers.  Local state: History<V>, a Vec of HistoricalValue<V>, each     *)
(* a value with its State (Committed or Transaction(ix)).                  *)
(***************************************************************************)
EXTENDS Integers, Sequences, FiniteSets, TLC

\* Bounds of the exploration.
MaxOpens == 2
MaxLen == 3
MaxValue == 2
\* Width of usize, scaled down to keep the largest counter value in reach.
UsizeBits == 3

\* The values V stored in a History.
Values == 1..MaxValue

VARIABLES
    depth,             \* States.0
    cell,              \* History.0, bottom (index 1) to top
    debug_assertions,  \* cfg(debug_assertions) of the build
    panicked,          \* a panic has unwound the calling thread
    op,                \* name of the last operation called
    prevOp,            \* name of the operation called before it
    arg,               \* value argument of the last History::set call
    prevCell,          \* History.0 at the time the last operation was called
    opens,             \* number of start_transaction calls so far
    closes,            \* number of closing calls made while depth > 0
    pending,           \* a closing call has not been reconciled yet
    hist,              \* the calls since the last start_transaction, while
                       \* they follow start; set; close; apply_close
    saved,             \* History.0 at the last start_transaction call
    ret                \* what the last accessor of the History returned

vars == <<depth, cell, debug_assertions, panicked, op, prevOp, arg, prevCell,
          opens, closes, pending, hist, saved, ret>>

----------------------------------------------------------------------------
\* Option<T>
None == <<>>
Some(x) == <<x>>

\* enum State { Committed, Transaction(usize) }
Committed == <<"Committed">>
Transaction(ix) == <<"Transaction", ix>>

\* State::transaction_index
transaction_index(index) ==
    IF index[1] = "Transaction" THEN Some(index[2]) ELSE None

\* Option::unwrap_or
unwrap_or(o, default) == IF o = None THEN default ELSE o[1]

\* crate::HistoricalValue { value, index }
HistoricalValue(value, index) == [value |-> value, index |-> index]

----------------------------------------------------------------------------
\* States::default
States_default == 0

\* States::discard_prospective
discard_prospective(s) == IF s > 0 THEN s - 1 ELSE s

\* A commit_prospective that leaves the layer open.
commit_prospective_keeps(s) == s

\* States::commit_prospective
commit_prospective(s) == IF s > 0 THEN s - 1 ELSE s

\* usize::MAX
usize_MAX == 2^UsizeBits - 1

\* States::start_transaction: self.0 += 1.  At usize::MAX the addition
\* overflows: it panics in a build with overflow checks (the default with
\* debug_assertions) and wraps to 0 in a build without them.
start_transaction(s, dbg) ==
    IF s = usize_MAX
    THEN IF dbg
         THEN [depth |-> s, panicked |-> TRUE]
         ELSE [depth |-> 0, panicked |-> FALSE]
    ELSE [depth |-> s + 1, panicked |-> FALSE]

\* A discard_transaction that decrements without testing the counter.
discard_transaction_unguarded(s) == s - 1

\* States::discard_transaction
discard_transaction(s) == IF s > 0 THEN s - 1 ELSE s

\* States::commit_transaction
commit_transaction(s) == IF s > 0 THEN s - 1 ELSE s

----------------------------------------------------------------------------
\* A set whose assertion rejects an entry of the current layer.
set_assert_strict(h, s, dbg) ==
    dbg => unwrap_or(transaction_index(h[Len(h)].index), 0) < s

\* A set whose assertion is never evaluated.
set_assert_skipped(h, s, dbg) == TRUE

\* The debug_assert! of History::set: compiled out without debug_assertions.
set_assert(h, s, dbg) ==
    dbg => unwrap_or(transaction_index(h[Len(h)].index), 0) <= s

\* A set that pushes a new entry even when the top entry is of the current
\* layer.
set_always_push(h, s, value, dbg) ==
    IF h # <<>> /\ ~set_assert(h, s, dbg)
    THEN [cell |-> h, panicked |-> TRUE]
    ELSE [cell |-> Append(h, HistoricalValue(value, Transaction(s))),
          panicked |-> FALSE]

\* A set that returns without storing the value when the top entry is of the
\* current layer.
set_keep_value(h, s, value, dbg) ==
    IF h # <<>> /\ ~set_assert(h, s, dbg)
    THEN [cell |-> h, panicked |-> TRUE]
    ELSE IF h # <<>> /\ transaction_index(h[Len(h)].index) = Some(s)
         THEN [cell |-> h, panicked |-> FALSE]
         ELSE [cell |-> Append(h, HistoricalValue(value, Transaction(s))),
               panicked |-> FALSE]

\* A set that tags the pushed entry with the next layer.
set_off_by_one(h, s, value, dbg) ==
    IF h # <<>> /\ ~set_assert(h, s, dbg)
    THEN [cell |-> h, panicked |-> TRUE]
    ELSE IF h # <<>> /\ transaction_index(h[Len(h)].index) = Some(s)
         THEN [cell |-> [h EXCEPT ![Len(h)].value = value],
               panicked |-> FALSE]
         ELSE [cell |-> Append(h, HistoricalValue(value, Transaction(s + 1))),
               panicked |-> FALSE]

\* A set that stores a value written with no layer open as Committed.
set_commits_at_zero(h, s, value, dbg) ==
    IF h # <<>> /\ ~set_assert(h, s, dbg)
    THEN [cell |-> h, panicked |-> TRUE]
    ELSE IF h # <<>> /\ transaction_index(h[Len(h)].index) = Some(s)
         THEN [cell |-> [h EXCEPT ![Len(h)].value = value],
               panicked |-> FALSE]
         ELSE [cell |-> Append(h, HistoricalValue(value,
                            IF s = 0 THEN Committed ELSE Transaction(s))),
               panicked |-> FALSE]

\* A set that inserts the new entry at the bottom of the stack.
set_insert_bottom(h, s, value, dbg) ==
    IF h # <<>> /\ ~set_assert(h, s, dbg)
    THEN [cell |-> h, panicked |-> TRUE]
    ELSE IF h # <<>> /\ transaction_index(h[Len(h)].index) = Some(s)
         THEN [cell |-> [h EXCEPT ![Len(h)].value = value],
               panicked |-> FALSE]
         ELSE [cell |-> <<HistoricalValue(value, Transaction(s))>> \o h,
               panicked |-> FALSE]

\* History::set.  The result is the new History.0 and whether the call
\* panicked; a panic leaves the History as it was.
set(h, s, value, dbg) ==
    IF h # <<>> /\ ~set_assert(h, s, dbg)
    THEN [cell |-> h, panicked |-> TRUE]
    ELSE IF h # <<>> /\ transaction_index(h[Len(h)].index) = Some(s)
         THEN [cell |-> [h EXCEPT ![Len(h)].value = value],
               panicked |-> FALSE]
         ELSE [cell |-> Append(h, HistoricalValue(value, Transaction(s))),
               panicked |-> FALSE]

\* History::get
get(h) == IF h = <<>> THEN None ELSE Some(h[Len(h)].value)

\* Vec::truncate
truncate(h, len) == IF Len(h) > len THEN SubSeq(h, 1, len) ELSE h

\* An into_pending that takes the oldest entry instead of the latest.
into_pending_oldest(h) == IF h = <<>> THEN None ELSE Some(h[1].value)

\* History::into_pending: self.0.pop() and the value of the popped entry.
into_pending(h) == IF h = <<>> THEN None ELSE Some(h[Len(h)].value)

\* History::get_committed
get_committed(h) ==
    IF Len(h) >= 1 /\ h[1].index = Committed
    THEN Some(h[1].value)
    ELSE None

\* An into_committed that pops without truncating first.
into_committed_no_truncate(h) ==
    IF h # <<>> /\ h[Len(h)].index = Committed
    THEN Some(h[Len(h)].value)
    ELSE None

\* History::into_committed: truncate(1), then pop() matched against
\* an entry whose index is State::Committed.
into_committed(h) ==
    LET t == truncate(h, 1) IN
    IF t # <<>> /\ t[Len(t)].index = Committed
    THEN Some(t[Len(t)].value)
    ELSE None

\* HistoricalValue::as_mut on entry i of h: the index of the entry and
\* a mutable reference to its value, here the position i.
as_mut(h, i) == [value |-> i, index |-> h[i].index]

\* A get_mut that borrows the first entry instead of the last.
get_mut_first(h) == IF h = <<>> THEN None ELSE Some(as_mut(h, 1))

\* History::get_mut
get_mut(h) == IF h = <<>> THEN None ELSE Some(as_mut(h, Len(h)))

----------------------------------------------------------------------------
\* The calls start_transaction; set; discard_transaction or
\* commit_transaction; the matching apply_*: hist follows the calls made
\* since the last start_transaction for as long as they are of this shape.
Follows(h, name) ==
    \/ h = <<"start_transaction">> /\ name = "set"
    \/ /\ h = <<"start_transaction", "set">>
       /\ name \in {"discard_transaction", "commit_transaction"}
    \/ /\ h = <<"start_transaction", "set", "discard_transaction">>
       /\ name = "apply_discard_transaction"
    \/ /\ h = <<"start_transaction", "set", "commit_transaction">>
       /\ name = "apply_commit_transaction"

Track(name) ==
    /\ op' = name
    /\ prevOp' = op
    /\ prevCell' = cell
    /\ hist' = IF name = "start_transaction" THEN <<name>>
               ELSE IF Follows(hist, name) THEN Append(hist, name)
               ELSE <<>>
    /\ saved' = IF name = "start_transaction" THEN cell ELSE saved

\* A History is created empty by its owner (History::default), or holds the
\* committed value of its key.
InitCells ==
    {<<>>} \cup {<<HistoricalValue(v, Committed)>> : v \in Values}

Init ==
    /\ depth = States_default
    /\ cell \in InitCells
    /\ debug_assertions \in BOOLEAN
    /\ panicked = FALSE
    /\ op = "new"
    /\ prevOp = "new"
    /\ arg = 0
    /\ prevCell = cell
    /\ opens = 0
    /\ closes = 0
    /\ pending = FALSE
    /\ hist = <<>>
    /\ saved = cell
    /\ ret = None

\* A closing operation that also drops the latest entry of the History.
Close_pops(name, newDepth) ==
    /\ ~panicked
    /\ depth' = newDepth
    /\ closes' = IF depth > 0 THEN closes + 1 ELSE closes
    /\ pending' = TRUE
    /\ Track(name)
    /\ cell' = truncate(cell, Len(cell) - 1)
    /\ UNCHANGED <<debug_assertions, panicked, arg, opens, ret>>

\* A closing operation of the counter: close is one of the four operators.
Close(name, newDepth) ==
    /\ ~panicked
    /\ depth' = newDepth
    /\ closes' = IF depth > 0 THEN closes + 1 ELSE closes
    /\ pending' = TRUE
    /\ Track(name)
    /\ UNCHANGED <<cell, debug_assertions, panicked, arg, opens, ret>>

DiscardProspective == Close("discard_prospective", discard_prospective(depth))

CommitProspective == Close("commit_prospective", commit_prospective(depth))

DiscardTransaction == Close("discard_transaction", discard_transaction(depth))

CommitTransaction == Close("commit_transaction", commit_transaction(depth))

StartTransaction ==
    /\ ~panicked
    /\ opens < MaxOpens
    /\ depth' = start_transaction(depth, debug_assertions).depth
    /\ panicked' = start_transaction(depth, debug_assertions).panicked
    /\ opens' = opens + 1
    /\ Track("start_transaction")
    /\ UNCHANGED <<cell, debug_assertions, arg, closes, pending, ret>>

\* The four reconciliation operations are unimplemented!(): each panics.
Apply(name) ==
    /\ ~panicked
    /\ panicked' = TRUE
    /\ Track(name)
    /\ UNCHANGED <<depth, cell, debug_assertions, arg, opens, closes, pending,
                   ret>>

ApplyDiscardProspective == Apply("apply_discard_prospective")

ApplyCommitProspective == Apply("apply_commit_prospective")

ApplyDiscardTransaction == Apply("apply_discard_transaction")

ApplyCommitTransaction == Apply("apply_commit_transaction")

Set ==
    /\ ~panicked
    /\ \E value \in Values :
        LET r == set(cell, depth, value, debug_assertions) IN
        /\ Len(r.cell) <= MaxLen
        /\ cell' = r.cell
        /\ panicked' = r.panicked
        /\ arg' = value
    /\ Track("set")
    /\ UNCHANGED <<depth, debug_assertions, opens, closes, pending, ret>>

Next ==
    \/ DiscardProspective
    \/ CommitProspective
    \/ StartTransaction
    \/ DiscardTransaction
    \/ CommitTransaction
    \/ ApplyDiscardProspective
    \/ ApplyCommitProspective
    \/ ApplyDiscardTransaction
    \/ ApplyCommitTransaction
    \/ Set

Spec == Init /\ [][Next]_vars

----------------------------------------------------------------------------
\* The same operations on a History created empty (History::default).
InitEmpty == Init /\ cell = <<>>

SpecEmpty == InitEmpty /\ [][Next]_vars

\* The operations of the counter alone, on any States (States::test_state).
InitWord ==
    /\ depth \in 0..usize_MAX
    /\ cell = <<>>
    /\ debug_assertions \in BOOLEAN
    /\ panicked = FALSE
    /\ op = "new"
    /\ prevOp = "new"
    /\ arg = 0
    /\ prevCell = cell
    /\ opens = 0
    /\ closes = 0
    /\ pending = FALSE
    /\ hist = <<>>
    /\ saved = cell
    /\ ret = None

NextWord ==
    \/ DiscardProspective
    \/ CommitProspective
    \/ StartTransaction
    \/ DiscardTransaction
    \/ CommitTransaction

SpecWord == InitWord /\ [][NextWord]_vars

\* Layers are opened and values written, no layer is closed.
NextOpenWrite == StartTransaction \/ Set

SpecOpenWrite == InitEmpty /\ [][NextOpenWrite]_vars

----------------------------------------------------------------------------
\* The accessors of a History, called on the stacks that set builds: an
\* optional Committed entry at the bottom, then Transaction entries, each
\* pushed above an entry of another layer.
Layers == 0..MaxOpens

Entries ==
    {HistoricalValue(v, Committed) : v \in Values}
        \cup {HistoricalValue(v, Transaction(n)) : v \in Values, n \in Layers}

AccessCells ==
    {h \in UNION {[1..n -> Entries] : n \in 0..MaxLen} :
        /\ \A i \in 2..Len(h) : h[i].index # Committed
        /\ \A i \in 2..Len(h) : h[i].index # h[i - 1].index}

InitAccess ==
    /\ depth = States_default
    /\ cell \in AccessCells
    /\ debug_assertions = FALSE
    /\ panicked = FALSE
    /\ op = "new"
    /\ prevOp = "new"
    /\ arg = 0
    /\ prevCell = cell
    /\ opens = 0
    /\ closes = 0
    /\ pending = FALSE
    /\ hist = <<>>
    /\ saved = cell
    /\ ret = None

\* The History has been moved into into_pending or into_committed.
Consumed == op \in {"into_pending", "into_committed"}

Access(name, result, newCell) ==
    /\ ~Consumed
    /\ op' = name
    /\ prevCell' = cell
    /\ ret' = result
    /\ cell' = newCell
    /\ UNCHANGED <<depth, debug_assertions, panicked, prevOp, arg, opens,
                   closes, pending, hist, saved>>

Get == Access("get", get(cell), cell)

GetCommitted == Access("get_committed", get_committed(cell), cell)

\* The caller of get_mut may assign a value through the reference it gets.
GetMut ==
    LET r == get_mut(cell) IN
    \/ Access("get_mut", r, cell)
    \/ /\ r # None
       /\ \E value \in Values :
            Access("get_mut", r, [cell EXCEPT ![r[1].value].value = value])

\* into_pending and into_committed take self: the History is dropped.
IntoPending == Access("into_pending", into_pending(cell), <<>>)

IntoCommitted == Access("into_committed", into_committed(cell), <<>>)

NextAccess ==
    \/ Get
    \/ GetCommitted
    \/ GetMut
    \/ IntoPending
    \/ IntoCommitted

SpecAccess == InitAccess /\ [][NextAccess]_vars

----------------------------------------------------------------------------
\* Helpers of the properties.

Top(h) == h[Len(h)]

IsTransaction(e) == e.index[1] = "Transaction"

\* The top entry of h is of a layer above s: h has not been synchronized.
Unsynchronized(h, s) ==
    h # <<>> /\ unwrap_or(transaction_index(Top(h).index), 0) > s

\* c is h after a write of value at layer s: the top entry replaced in place
\* when it is of layer s, one entry pushed otherwise.
Written(h, s, value, c) ==
    IF h # <<>> /\ Top(h).index = Transaction(s)
    THEN /\ Len(c) = Len(h)
         /\ \A i \in 1..Len(h) : c[i].index = h[i].index
         /\ Top(c).value = value
         /\ \A i \in 1..(Len(h) - 1) : c[i] = h[i]
    ELSE /\ Len(c) = Len(h) + 1
         /\ Top(c) = HistoricalValue(value, Transaction(s))
         /\ \A i \in 1..Len(h) : c[i] = h[i]

Closers == {"discard_prospective", "commit_prospective",
            "discard_transaction", "commit_transaction"}

----------------------------------------------------------------------------
\* C1: from States::default(), after any sequence of start_transaction and
\* closing calls the depth is the number of start_transaction calls minus
\* the number of closing calls made while the depth was > 0, and it is never
\* negative.
C1_DepthIsOpensMinusCloses == depth = opens - closes /\ depth >= 0

C1_Witness ==
    op = "commit_transaction" /\ opens = 2 /\ closes = 1 /\ depth = 1

\* C2: the state right after any set has at most one Committed entry, at
\* index 0 (the bottom), Transaction layers non-decreasing from bottom to top,
\* and every Transaction layer <= the current depth.
C2_StackOrderedAfterSet ==
    (op = "set" /\ ~panicked) =>
        /\ \A i \in 1..Len(cell) : cell[i].index = Committed => i = 1
        /\ \A i, j \in 1..Len(cell) :
            (i < j /\ IsTransaction(cell[i]) /\ IsTransaction(cell[j]))
                => cell[i].index[2] <= cell[j].index[2]
        /\ \A i \in 1..Len(cell) :
            IsTransaction(cell[i]) => cell[i].index[2] <= depth

\* C3: in every reachable state no two entries of the stack carry the same
\* Transaction(n) tag.
C3_NoTwoEntriesOfOneLayer ==
    \A i, j \in 1..Len(cell) :
        (i # j /\ IsTransaction(cell[i])) => cell[i].index # cell[j].index

\* C4: start_transaction; set(v); discard_transaction;
\* apply_discard_transaction completes and leaves the cell as it was before
\* the transaction was opened, so get() returns what it returned then.
C4_DiscardRestoresCell ==
    hist = <<"start_transaction", "set", "discard_transaction",
             "apply_discard_transaction">>
        => /\ ~panicked
           /\ cell = saved
           /\ get(cell) = get(saved)

\* C5: start_transaction; set(v); commit_transaction;
\* apply_commit_transaction completes with get() still returning v, the top
\* entry tagged with the outer layer, or Committed if no layer remains open.
C5_CommitKeepsValue ==
    hist = <<"start_transaction", "set", "commit_transaction",
             "apply_commit_transaction">>
        => /\ ~panicked
           /\ get(cell) = Some(arg)
           /\ cell # <<>>
           /\ Top(cell).index =
                IF depth = 0 THEN Committed ELSE Transaction(depth)

\* C6: after a closing operation on the counter no set is accepted on the
\* cell until the matching apply_* reconciliation has run: a set called while
\* a reconciliation is pending does not return.
C6_NoWriteBeforeReconciliation ==
    [][(pending /\ op' = "set") => panicked']_vars

\* C7 as stated: set replaces the value of a top entry tagged
\* Transaction(depth) in place and pushes exactly one entry
\* (value, Transaction(depth)) in every other case, the entries below
\* unchanged.
C7_SetReplacesOrPushes ==
    op = "set" => Written(prevCell, depth, arg, cell)

\* C7 amended: a set that returns has replaced the value of a top entry tagged
\* Transaction(depth) in place, or pushed exactly one entry
\* (value, Transaction(depth)) in every other case, the entries below
\* unchanged; a set panics instead, leaving the stack as it was, only in a
\* build with debug assertions when the top entry is of a layer above the
\* depth.
C7_SetReplacesOrPushesOrPanics ==
    op = "set" =>
        IF panicked
        THEN /\ debug_assertions
             /\ Unsynchronized(prevCell, depth)
             /\ cell = prevCell
        ELSE Written(prevCell, depth, arg, cell)

C7_Witness ==
    /\ op = "set" /\ ~panicked
    /\ Len(prevCell) = 2
    /\ Top(prevCell).index = Transaction(1)
    /\ depth = 2
    /\ Len(cell) = 3

\* C8: when set's precondition holds, set(depth, v) returns and get() right
\* after it returns Some(v); get() on an empty cell returns None.
C8_SetThenGet ==
    /\ (op = "set" /\ ~Unsynchronized(prevCell, depth))
        => ~panicked /\ get(cell) = Some(arg)
    /\ cell = <<>> => get(cell) = None

C8_Witness ==
    /\ op = "set" /\ ~panicked
    /\ prevCell # <<>>
    /\ Top(prevCell).index = Transaction(depth)
    /\ get(prevCell) # Some(arg)
    /\ get(cell) = Some(arg)

\* C9: a set right after a set at the same depth leaves the length and the
\* tags of the stack as they were after the first, the top value being that
\* of the second; with the same value the stack is as after the first.
C9_SameLayerWritesCoalesce ==
    (op = "set" /\ prevOp = "set") =>
        /\ ~panicked
        /\ Len(cell) = Len(prevCell)
        /\ \A i \in 1..Len(cell) : cell[i].index = prevCell[i].index
        /\ Top(cell).value = arg
        /\ get(prevCell) = Some(arg) => cell = prevCell

C9_Witness ==
    /\ op = "set" /\ prevOp = "set"
    /\ Len(prevCell) = 2
    /\ get(prevCell) # Some(arg)
    /\ get(cell) = Some(arg)

\* C10 as stated: a set on a cell whose top entry is of a layer above the
\* depth fails its assertion and stores nothing; a set never fails otherwise.
C10_UnsynchronizedSetAborts ==
    op = "set" =>
        IF Unsynchronized(prevCell, depth)
        THEN panicked /\ cell = prevCell
        ELSE ~panicked

\* C10 amended: in a build with debug assertions, a set on a cell whose top
\* entry is of a layer above the depth fails its assertion and stores
\* nothing; in a build without them it returns, having pushed
\* (value, Transaction(depth)) above that entry; a set never fails on an empty
\* cell or when the top entry is Committed or of a layer <= the depth.
C10_UnsynchronizedSetAbortsInDebug ==
    op = "set" =>
        IF Unsynchronized(prevCell, depth)
        THEN IF debug_assertions
             THEN panicked /\ cell = prevCell
             ELSE /\ ~panicked
                  /\ cell = Append(prevCell,
                                   HistoricalValue(arg, Transaction(depth)))
        ELSE ~panicked

C10_Witness ==
    /\ op = "set"
    /\ debug_assertions
    /\ Unsynchronized(prevCell, depth)
    /\ panicked

\* C11: into_committed returns Some(value of entry 0) if and only if the
\* stack is non-empty and entry 0 is tagged Committed, and None otherwise,
\* whatever the entries above it are; get_committed returns the same without
\* consuming the cell.
C11_CommittedIsBottomEntry ==
    LET expected == IF prevCell # <<>> /\ prevCell[1].index = Committed
                    THEN Some(prevCell[1].value)
                    ELSE None
    IN /\ op = "into_committed" => ret = expected
       /\ op = "get_committed" => ret = expected /\ cell = prevCell

C11_Witness ==
    /\ op = "into_committed"
    /\ Len(prevCell) = 3
    /\ prevCell[1].index = Committed
    /\ ret = Some(prevCell[1].value)
    /\ ret # get(prevCell)

\* C14: start_transaction never fails and increments the depth by exactly 1
\* for every value of the counter, the largest value of its machine word
\* included.
C14_StartAlwaysIncrements ==
    [][op' = "start_transaction" => (~panicked' /\ depth' = depth + 1)]_vars

\* C15: into_pending returns exactly what get() returns on the same cell, the
\* value of the topmost entry, and None on an empty cell, whatever the tags
\* of the entries are.
C15_PendingIsTopValue ==
    op = "into_pending" =>
        /\ ret = get(prevCell)
        /\ prevCell = <<>> => ret = None
        /\ prevCell # <<>> => ret = Some(Top(prevCell).value)

C15_Witness ==
    /\ op = "into_pending"
    /\ Len(prevCell) = 3
    /\ prevCell[1].index = Committed
    /\ ret = Some(Top(prevCell).value)
    /\ ret # Some(prevCell[1].value)

\* C20: get and get_mut never change the length of the stack or the tag of an
\* entry: get changes nothing, and get_mut gives access to the value of the
\* topmost entry only (None on an empty cell), so an update through it leaves
\* all tags and all lower entries as they were.
C20_GetAndGetMutKeepTags ==
    op \in {"get", "get_mut"} =>
        /\ Len(cell) = Len(prevCell)
        /\ \A i \in 1..Len(cell) : cell[i].index = prevCell[i].index
        /\ \A i \in 1..(Len(cell) - 1) : cell[i] = prevCell[i]
        /\ op = "get" => cell = prevCell
        /\ (op = "get_mut" /\ prevCell = <<>>) => ret = None
        /\ (op = "get_mut" /\ prevCell # <<>>) =>
                ret = Some([value |-> Len(prevCell),
                            index |-> Top(prevCell).index])

C20_Witness ==
    /\ op = "get_mut"
    /\ Len(prevCell) = 3
    /\ Top(cell).value # Top(prevCell).value
    /\ cell[1].value # Top(cell).value

Appliers == {"apply_discard_prospective", "apply_commit_prospective",
             "apply_discard_transaction", "apply_commit_transaction"}

\* C12: a cell built from the empty History by set calls never contains a
\* Committed entry; after set at depth 0 on an empty cell get() returns the
\* written value while get_committed() and into_committed() return None, the
\* entry being tagged Transaction(0).
C12_SetNeverCommits ==
    /\ \A i \in 1..Len(cell) : cell[i].index # Committed
    /\ get_committed(cell) = None
    /\ into_committed(cell) = None
    /\ (op = "set" /\ prevCell = <<>> /\ depth = 0) =>
            /\ cell = <<HistoricalValue(arg, Transaction(0))>>
            /\ get(cell) = Some(arg)

C12_Witness ==
    /\ op = "set" /\ prevCell = <<>> /\ depth = 0
    /\ get(cell) = Some(arg)
    /\ into_committed(cell) = None

\* C13: discard_prospective, commit_prospective, discard_transaction and
\* commit_transaction have the same effect on the counter: depth - 1 if
\* depth > 0, and no change if depth = 0.
C13_ClosersDecrementAlike ==
    [][op' \in Closers => depth' = IF depth > 0 THEN depth - 1 ELSE 0]_vars

C13_Witness ==
    /\ op = "commit_prospective" /\ prevOp = "discard_transaction"
    /\ opens = 0 /\ closes = 2 /\ depth = usize_MAX - 2

\* C16: start_transaction and the four closing operations leave the History
\* as it is, so a value written in a discarded layer stays visible through
\* get() until reconciliation runs.
C16_DepthChangeKeepsHistory ==
    /\ op \in Closers \cup {"start_transaction"} => cell = prevCell
    /\ hist = <<"start_transaction", "set", "discard_transaction">>
            => get(cell) = Some(arg)

C16_Witness ==
    /\ hist = <<"start_transaction", "set", "discard_transaction">>
    /\ saved = <<>>
    /\ depth = 0
    /\ get(cell) = Some(arg)

\* C17: each of the four reconciliation operations is total and panic-free:
\* called in any reachable state it returns normally.
C17_ReconciliationReturns == op \in Appliers => ~panicked

\* C18: with start_transaction and set only, from depth 0 and an empty cell,
\* the assertion of set never fails, the Transaction layers of the stack are
\* strictly increasing from bottom to top, the top layer is <= depth and the
\* length of the stack is <= depth + 1.
C18_OpenWriteStackStrictlyIncreasing ==
    /\ ~panicked
    /\ \A i \in 1..Len(cell) : IsTransaction(cell[i])
    /\ \A i \in 1..(Len(cell) - 1) : cell[i].index[2] < cell[i + 1].index[2]
    /\ cell # <<>> => Top(cell).index[2] <= depth
    /\ Len(cell) <= depth + 1

C18_Witness ==
    /\ op = "set"
    /\ depth = 2
    /\ Len(cell) = 3
    /\ Top(cell).index = Transaction(2)

\* C19: after a layer is closed without reconciliation and a layer is opened
\* at the same depth n, a set finds the entry tagged Transaction(n) that was
\* on top before the layer was opened, passes its assertion and overwrites
\* that entry in place.
C19_StaleEntryReused ==
    (/\ op = "set" /\ prevOp = "start_transaction"
     /\ prevCell # <<>>
     /\ Top(prevCell).index = Transaction(depth))
        => /\ ~panicked
           /\ cell = [prevCell EXCEPT ![Len(prevCell)].value = arg]

C19_Witness ==
    /\ op = "set" /\ prevOp = "start_transaction"
    /\ opens = 2 /\ closes = 1 /\ depth = 1
    /\ prevCell = <<HistoricalValue(1, Transaction(1))>>
    /\ cell = <<HistoricalValue(2, Transaction(1))>>

====
